---- MODULE Spec2Model ----
(***************************************************************************)
(* A model of llmake (src/llmake.py): the recursive-descent Parser over    *)
(* the token list, Prompts.validate_dependencies, inherit_properties and   *)
(* get_prompt, Entry.to_make, and main(), which runs them as one pipeline. *)
(*                                                                         *)
(* A Python str is a sequence of one-character strings, so that            *)
(* startswith("_"), "." in dep, dep + ".txt" and string[1:-1] are          *)
(* computed and not looked up.  A Python dict is a sequence of its items   *)
(* in insertion order.                                                     *)
(***************************************************************************)
EXTENDS Integers, Sequences, FiniteSets, TLC

VARIABLES
    tokens,     \* Parser.tokens, tokens[1] being the ENCODING token
    index,      \* Parser.index (0-based, as in the source)
    disk,       \* the files get_prompt can open: file name -> lines
    pc,         \* main's position: "parse", "validate", "inherit", "emit", "exit"
    prompts,    \* Prompts.entries, once parse_entries returned a Prompts
    args,       \* the command-line arguments main has read so far
    stderr,     \* what was written to stderr, in order
    output,     \* what main wrote to its output
    assembled,  \* what get_prompt did: its log of emissions and opened files
    status,     \* the exit status: -1 while main runs
    calls,      \* the stages main has called, in order
    run         \* make running the recipe of one rule of the emitted makefile

vars == <<tokens, index, disk, pc, prompts, args, stderr, output, assembled,
          status, calls, run>>

(***************************************************************************)
(* Strings                                                                 *)
(***************************************************************************)
None == <<>>

\* "c in s" for a one-character c
Contains(s, c) == \E k \in 1..Len(s) : s[k] = c

\* s.startswith(c) for a one-character c
StartsWith(s, c) == Len(s) >= 1 /\ s[1] = c

\* s[1:-1]
Strip1(s) == IF Len(s) >= 2 THEN SubSeq(s, 2, Len(s) - 1) ELSE <<>>

DigitChars == <<"0", "1", "2", "3", "4", "5", "6", "7", "8", "9">>

DigitValue(c) == (CHOOSE k \in 1..10 : DigitChars[k] = c) - 1

IsNumeral(s) == Len(s) >= 1 /\ \A k \in 1..Len(s) : \E d \in 1..10 : DigitChars[d] = s[k]

RECURSIVE IntOfStr(_)
\* int(s) for a string of decimal digits
IntOfStr(s) ==
    IF Len(s) = 0 THEN 0
    ELSE 10 * IntOfStr(SubSeq(s, 1, Len(s) - 1)) + DigitValue(s[Len(s)])

RECURSIVE StrOfInt(_)
\* str(n) for n >= 0
StrOfInt(n) ==
    IF n < 10 THEN <<DigitChars[n + 1]>>
    ELSE StrOfInt(n \div 10) \o <<DigitChars[(n % 10) + 1]>>

RECURSIVE Join(_, _)
\* sep.join(parts)
Join(sep, parts) ==
    IF Len(parts) = 0 THEN <<>>
    ELSE IF Len(parts) = 1 THEN parts[1]
    ELSE parts[1] \o sep \o Join(sep, Tail(parts))

Max(a, b) == IF a >= b THEN a ELSE b

\* A Python value that is a str, or a list of str
PyStr(s) == [list |-> FALSE, items |-> <<s>>]
PyList(xs) == [list |-> TRUE, items |-> xs]

(***************************************************************************)
(* ParseError and the parser's results                                     *)
(***************************************************************************)
TOKEN_NAMES(element) ==
    CASE element = "colons" -> "':'"
      [] element = "comma" -> "','"
      [] element = "period" -> "'.'"
      [] element = "indent" -> "INDENT (expected indentation)"
      [] element = "deindent" -> "DEDENT (expected dedentation)"
      [] element = "newline" -> "NEWLINE (expected end of line)"
      [] element = "string" -> "a \"string\" (e.g., \"text here\")"
      [] element = "name" -> "a NAME (e.g., variable or keyword)"
      [] OTHER -> element

\* ParseError(message, token, source_lines); has_lines is "source_lines is given"
ParseError(message, token, has_lines) ==
    [type |-> "ParseError", message |-> message, token |-> token,
     source_lines |-> has_lines]

\* ParseError.__str__: the token's text and kind are printed only with source lines
ParseError_str(e) ==
    IF e.source_lines
    THEN [detailed |-> TRUE, message |-> e.message,
          got |-> e.token.string, kind |-> e.token.type]
    ELSE [detailed |-> FALSE, message |-> e.message, got |-> None, kind |-> ""]

\* a call that returned v, leaving the cursor at i
Return(v, i) == [exc |-> "", v |-> v, index |-> i]

\* a call that raised e with the cursor at i
Raise(e, i) == [exc |-> e.type, error |-> e, index |-> i]

(***************************************************************************)
(* Parser: the cursor and the token tests                                  *)
(***************************************************************************)
\* Parser.current when Parser.index = i: next() leaves current alone at the end
current(i) == tokens[IF i + 1 <= Len(tokens) THEN i + 1 ELSE Len(tokens)]

\* Each test gives the Python value returned (v) and its truth value (ok).
name(i) ==
    IF current(i).type # "NAME" THEN [ok |-> FALSE, v |-> None]
    ELSE [ok |-> current(i).string # <<>>, v |-> current(i).string]

colons(i) == [ok |-> current(i).type = "OP" /\ current(i).string = <<":">>, v |-> None]

newline(i) == [ok |-> current(i).type \in {"NEWLINE", "NL"}, v |-> None]

string(i) ==
    IF current(i).type # "STRING" THEN [ok |-> FALSE, v |-> None]
    ELSE [ok |-> Strip1(current(i).string) # <<>>, v |-> Strip1(current(i).string)]

end(i) == [ok |-> current(i).type = "ENDMARKER", v |-> None]

indent(i) == [ok |-> current(i).type = "INDENT", v |-> None]

period(i) == [ok |-> current(i).type = "OP" /\ current(i).string = <<".">>, v |-> None]

comma(i) == [ok |-> current(i).type = "OP" /\ current(i).string = <<",">>, v |-> None]

deindent(i) == [ok |-> current(i).type = "DEDENT", v |-> None]

\* accept(element): r is element() at the cursor i
accept(r, i) == IF r.ok THEN Return(r, i + 1) ELSE Return(r, i)

\* the message expect() builds: the expected symbol, the token's text and kind
ExpectMessage(element, tok) ==
    [expected |-> TOKEN_NAMES(element), names_token |-> TRUE,
     got |-> tok.string, kind |-> tok.type]

\* expect(element): r is element() at the cursor i
expect(r, element, i) ==
    IF ~r.ok
    THEN Raise(ParseError(ExpectMessage(element, current(i)), current(i), TRUE), i)
    ELSE Return(r.v, i + 1)

RECURSIVE skip_newlines(_)
\* while self.accept(self.newline): pass
skip_newlines(i) ==
    IF newline(i).ok /\ i < Len(tokens) THEN skip_newlines(i + 1) ELSE i

(***************************************************************************)
(* Parser: dependencies, fields, entries                                   *)
(***************************************************************************)
kw_text == <<"t", "e", "x", "t">>
kw_command == <<"c", "o", "m", "m", "a", "n", "d">>
kw_validator == <<"v", "a", "l", "i", "d", "a", "t", "o", "r">>
kw_retry == <<"r", "e", "t", "r", "y">>
kw_auto_retry == <<"a", "u", "t", "o", "_", "r", "e", "t", "r", "y">>

ValueError == [type |-> "ValueError"]
TypeError == [type |-> "TypeError"]
KeyError == [type |-> "KeyError"]
FileNotFoundError == [type |-> "FileNotFoundError"]

RECURSIVE parse_depency_tail(_, _)
\* text = text + "." + self.expect(self.name), then the loop again
append_part(text, part) ==
    IF part.exc # "" THEN part
    ELSE parse_depency_tail((text \o <<".">>) \o part.v, part.index)

\* while self.accept(self.period): ...
parse_depency_tail(text, i) ==
    IF ~period(i).ok THEN Return(text, i)
    ELSE append_part(text, expect(name(i + 1), "name", i + 1))

\* parse_depency once its first NAME was expected
parse_depency_from(text) ==
    IF text.exc # "" THEN text ELSE parse_depency_tail(text.v, text.index)

parse_depency(i) == parse_depency_from(expect(name(i), "name", i))

RECURSIVE parse_dependencies(_, _)
\* dependencies.append(dep); if not self.accept(self.comma): break
append_dependency(dep, dependencies) ==
    IF dep.exc # "" THEN dep
    ELSE IF comma(dep.index).ok
         THEN parse_dependencies(dep.index + 1, Append(dependencies, dep.v))
         ELSE Return(Append(dependencies, dep.v), dep.index)

\* the "while True" loop of parse_entry: a dependency, then a comma or the end
parse_dependencies(i, dependencies) == append_dependency(parse_depency(i), dependencies)

\* int(x) of a fields value, or of the default 0 when the key is absent
int_of_field(fields, key) ==
    IF key \notin DOMAIN fields THEN Return(0, 0)
    ELSE IF fields[key].list THEN Raise(TypeError, 0)
    ELSE IF ~IsNumeral(fields[key].items[1]) THEN Raise(ValueError, 0)
    ELSE Return(IntOfStr(fields[key].items[1]), 0)

\* after 'retry': the NUMBER, or ParseError("Expected a number after 'retry'", token)
retry_number(i) ==
    IF current(i).type = "NUMBER"
    THEN IF IsNumeral(current(i).string)
         THEN Return(IntOfStr(current(i).string), i + 1)
         ELSE Raise(ValueError, i)
    ELSE Raise(ParseError([expected |-> "a number after 'retry'",
                           names_token |-> FALSE, got |-> None, kind |-> ""],
                          current(i), FALSE), i)

\* if self.accept(self.name) == 'retry': word is what accept returned
retry_after(word) ==
    IF word.v.ok /\ word.v.v = kw_retry THEN retry_number(word.index)
    ELSE Return(0, word.index)

\* line_retry of a validator line: any NAME after the string is accepted
validator_retry(i) == retry_after(accept(name(i), i))

\* fields['validator'].append({'cmd': line_str, 'retry': line_retry})
with_validator(fields, line_str, line_retry) ==
    (kw_validator :>
        PyList(Append(IF kw_validator \in DOMAIN fields
                      THEN fields[kw_validator].items ELSE <<>>,
                      [cmd |-> line_str, retry |-> line_retry])))
    @@ fields

\* fields['auto_retry'] = str(max(old_retry, line_retry))
with_retry(fields, old_retry, line_retry) ==
    IF old_retry.exc # "" THEN Raise(old_retry.error, line_retry.index)
    ELSE Return((kw_auto_retry :> PyStr(StrOfInt(Max(old_retry.v, line_retry.v)))) @@ fields,
                line_retry.index)

\* the fields after a "validator" line whose trailing words gave line_retry
validator_added(line_str, line_retry, fields) ==
    IF line_retry.exc # "" THEN line_retry
    ELSE IF line_retry.v <= 0
         THEN Return(with_validator(fields, line_str, line_retry.v), line_retry.index)
         ELSE with_retry(with_validator(fields, line_str, line_retry.v),
                         int_of_field(fields, kw_auto_retry), line_retry)

validator_field(line_str, i, fields) ==
    validator_added(line_str, validator_retry(i), fields)

\* fields after a line of any other key: a repeated key becomes a list
other_field(key, line_str, fields) ==
    IF key \notin DOMAIN fields THEN (key :> PyStr(line_str)) @@ fields
    ELSE (key :> PyList(Append(fields[key].items, line_str))) @@ fields

RECURSIVE parse_fields(_, _)
\* "skip extra newlines", then the loop again
field_done(field) ==
    IF field.exc # "" THEN field
    ELSE parse_fields(skip_newlines(field.index), field.v)

\* line_str = self.expect(self.string), then the key's branch
field_string(key, line_str, fields) ==
    IF line_str.exc # "" THEN line_str
    ELSE IF key = kw_validator
         THEN field_done(validator_field(line_str.v, line_str.index, fields))
         ELSE field_done(Return(other_field(key, line_str.v, fields), line_str.index))

\* self.expect(self.colons) after the key
field_colon(key, colon, fields) ==
    IF colon.exc # "" THEN colon
    ELSE field_string(key, expect(string(colon.index), "string", colon.index), fields)

\* key = self.expect(self.name)
field_key(key, fields) ==
    IF key.exc # "" THEN key
    ELSE field_colon(key.v, expect(colons(key.index), "colons", key.index), fields)

\* the loop over the body's lines, until the DEDENT
parse_fields(i, fields) ==
    IF current(i).type = "DEDENT" THEN Return(fields, i)
    ELSE IF newline(i).ok THEN parse_fields(i + 1, fields)
    ELSE field_key(expect(name(i), "name", i), fields)

\* "Build final data": the Entry of a parsed header and body
build_entry(entry_name, dependencies, fields, position, i) ==
    LET llm_commands == IF kw_command \in DOMAIN fields
                        THEN fields[kw_command].items ELSE <<>>
        v_list == IF kw_validator \in DOMAIN fields
                  THEN fields[kw_validator].items ELSE <<>>
        validator_commands == [k \in 1..Len(v_list) |-> v_list[k].cmd]
        auto_retry == int_of_field(fields, kw_auto_retry)
    IN  IF kw_text \notin DOMAIN fields
        THEN Raise(ParseError([expected |-> "Missing 'text' field in entry.",
                               names_token |-> FALSE, got |-> None, kind |-> ""],
                              current(i), FALSE), i)
        ELSE IF auto_retry.exc # "" THEN Raise(auto_retry.error, i)
        ELSE Return([name |-> entry_name,
                     dependencies |-> dependencies,
                     text |-> fields[kw_text],
                     source_position |-> position,
                     llm_commands |-> llm_commands,
                     validator_commands |-> validator_commands,
                     auto_retry |-> auto_retry.v], i)

\* self.expect(self.deindent), then the Entry
body_end(entry_name, dependencies, position, fields, ded) ==
    IF ded.exc # "" THEN ded
    ELSE build_entry(entry_name, dependencies, fields, position, ded.index)

\* the lines after the text, until the DEDENT
body_fields(entry_name, dependencies, position, fields) ==
    IF fields.exc # "" THEN fields
    ELSE body_end(entry_name, dependencies, position, fields.v,
                  expect(deindent(fields.index), "deindent", fields.index))

\* fields = {'text': field_text}
body_text(entry_name, dependencies, position, field_text) ==
    IF field_text.exc # "" THEN field_text
    ELSE body_fields(entry_name, dependencies, position,
                     parse_fields(field_text.index, kw_text :> PyStr(field_text.v)))

\* blank lines are skipped, then "the first line MUST be the string for text"
body_indent(entry_name, dependencies, position, ind) ==
    IF ind.exc # "" THEN ind
    ELSE body_text(entry_name, dependencies, position,
                   expect(string(skip_newlines(ind.index)), "string",
                          skip_newlines(ind.index)))

\* the body: INDENT, blank lines, the text string, the fields, DEDENT
parse_body(entry_name, dependencies, position, i) ==
    body_indent(entry_name, dependencies, position, expect(indent(i), "indent", i))

\* self.expect(self.newline) after the dependencies, then the body
entry_newline(position, entry_name, dependencies, eol) ==
    IF eol.exc # "" THEN eol
    ELSE parse_body(entry_name, dependencies, position, eol.index)

\* the dependencies were read
entry_dependencies(position, entry_name, deps) ==
    IF deps.exc # "" THEN deps
    ELSE entry_newline(position, entry_name, deps.v,
                       expect(newline(deps.index), "newline", deps.index))

\* self.expect(self.colons); if not self.accept(self.newline): the dependencies
entry_colon(position, entry_name, colon) ==
    IF colon.exc # "" THEN colon
    ELSE IF newline(colon.index).ok
         THEN parse_body(entry_name, <<>>, position, colon.index + 1)
         ELSE entry_dependencies(position, entry_name,
                                 parse_dependencies(colon.index, <<>>))

\* name = self.expect(self.name)
entry_header(position, nm) ==
    IF nm.exc # "" THEN nm
    ELSE entry_colon(position, nm.v, expect(colons(nm.index), "colons", nm.index))

\* parse_entry with the cursor at i; the position of an entry is its first token
parse_entry(i) == entry_header(i, expect(name(i), "name", i))

\* "name in entries" for the dict's items in insertion order
HasEntry(entries, n) == \E k \in 1..Len(entries) : entries[k].name = n

\* entries[name]
EntryOf(entries, n) == entries[CHOOSE k \in 1..Len(entries) : entries[k].name = n]

RECURSIVE parse_entries_from(_, _)
\* entries[entry.name] = entry were done without the test before it
add_entry_unchecked(entry, entries) ==
    IF entry.exc # "" THEN entry
    ELSE IF HasEntry(entries, entry.v.name)
         THEN parse_entries_from(entry.index,
                [k \in 1..Len(entries) |->
                    IF entries[k].name = entry.v.name THEN entry.v ELSE entries[k]])
         ELSE parse_entries_from(entry.index, Append(entries, entry.v))

\* if entry.name in entries: return None; entries[entry.name] = entry
add_entry(entry, entries) ==
    IF entry.exc # "" THEN entry
    ELSE IF HasEntry(entries, entry.v.name)
         THEN Return([none |-> TRUE, entries |-> <<>>, duplicate |-> entry.v.name],
                     entry.index)
         ELSE parse_entries_from(entry.index, Append(entries, entry.v))

\* parse_entries with the cursor at i and the entries read so far
parse_entries_from(i, entries) ==
    IF end(i).ok THEN Return([none |-> FALSE, entries |-> entries, duplicate |-> None], i + 1)
    ELSE add_entry(parse_entry(skip_newlines(i)), entries)

parse_entries == parse_entries_from(index, <<>>)

(***************************************************************************)
(* Prompts.validate_dependencies                                           *)
(***************************************************************************)
\* the keys of Prompts.entries
NamesOf(entries) == {entries[k].name : k \in 1..Len(entries)}

\* validate_dependencies were file references looked up like entry names
validate_files_too(entries, e, k) ==
    [ret |-> \A x \in 1..Len(entries) : \A j \in 1..Len(entries[x].dependencies) :
                /\ entries[x].dependencies[j] # entries[x].name
                /\ HasEntry(entries, entries[x].dependencies[j]),
     stderr |-> <<>>]

RECURSIVE validate_from(_, _, _)
\* the two nested loops, at entry number e and its dependency number k
validate_from(entries, e, k) ==
    IF e > Len(entries) THEN [ret |-> TRUE, stderr |-> <<>>]
    ELSE IF k > Len(entries[e].dependencies) THEN validate_from(entries, e + 1, 1)
    ELSE LET dep == entries[e].dependencies[k]
         IN  IF dep = entries[e].name
             THEN [ret |-> FALSE,
                   stderr |-> <<[error |-> "names itself as a dependency",
                                 position |-> entries[e].source_position,
                                 prompt |-> entries[e].name, dependency |-> dep]>>]
             ELSE IF ~HasEntry(entries, dep) /\ ~Contains(dep, ".")
             THEN [ret |-> FALSE,
                   stderr |-> <<[error |-> "does not exist",
                                 position |-> entries[e].source_position,
                                 prompt |-> entries[e].name, dependency |-> dep]>>]
             ELSE validate_from(entries, e, k + 1)

validate_dependencies(entries) == validate_from(entries, 1, 1)

(***************************************************************************)
(* Prompts.inherit_properties                                              *)
(***************************************************************************)
RECURSIVE build_graph(_, _, _, _)
\* "add edge (parent -> child)": g holds deps_graph and indeg
build_graph(entries, e, k, g) ==
    IF e > Len(entries) THEN Return(g, 0)
    ELSE IF k > Len(entries[e].dependencies) THEN build_graph(entries, e + 1, 1, g)
    ELSE LET parent_name == entries[e].dependencies[k]
             child_name == entries[e].name
         IN  IF Contains(parent_name, ".") THEN build_graph(entries, e, k + 1, g)
             ELSE IF parent_name \notin DOMAIN g.deps_graph THEN Raise(KeyError, 0)
             ELSE build_graph(entries, e, k + 1,
                    [deps_graph |-> [g.deps_graph EXCEPT ![parent_name] = Append(@, child_name)],
                     indeg |-> [g.indeg EXCEPT ![child_name] = @ + 1]])

RECURSIVE visit_children_eager(_, _, _, _)
\* "for nxt in deps_graph[node]" were every child queued at its first parent
visit_children_eager(children, k, queue, indeg) ==
    IF k > Len(children) THEN [queue |-> queue, indeg |-> indeg]
    ELSE visit_children_eager(children, k + 1, Append(queue, children[k]),
                              [indeg EXCEPT ![children[k]] = @ - 1])

RECURSIVE visit_children(_, _, _, _)
\* "for nxt in deps_graph[node]": s holds queue and indeg
visit_children(children, k, queue, indeg) ==
    IF k > Len(children) THEN [queue |-> queue, indeg |-> indeg]
    ELSE LET nxt == children[k]
             lower == [indeg EXCEPT ![nxt] = @ - 1]
         IN  visit_children(children, k + 1,
                            IF lower[nxt] = 0 THEN Append(queue, nxt) ELSE queue,
                            lower)

RECURSIVE topological_sort(_, _, _, _)
\* "while queue": queue.pop() takes the last element
topological_sort(queue, topo_order, indeg, deps_graph) ==
    IF Len(queue) = 0 THEN topo_order
    ELSE LET node == queue[Len(queue)]
             s == visit_children(deps_graph[node], 1,
                                 SubSeq(queue, 1, Len(queue) - 1), indeg)
         IN  topological_sort(s.queue, Append(topo_order, node), s.indeg, deps_graph)

\* resolved.get(parent_name, default)
GetOr(resolved, key, default) == IF key \in DOMAIN resolved THEN resolved[key] ELSE default

RECURSIVE parents_with(_, _, _)
\* the resolved non-empty lists of the parents named from position k on
parents_with(dependencies, k, resolved) ==
    IF k > Len(dependencies) THEN <<>>
    ELSE LET parent_name == dependencies[k]
             rest == parents_with(dependencies, k + 1, resolved)
         IN  IF Contains(parent_name, ".") THEN rest
             ELSE IF Len(GetOr(resolved, parent_name, <<>>)) > 0
                  THEN <<GetOr(resolved, parent_name, <<>>)>> \o rest
                  ELSE rest

\* the "Commands" block were the one parent's list added to the node's own
inherit_more_commands(entry, resolved_cmds) ==
    IF Len(entry.llm_commands) = 0 /\ Len(parents_with(entry.dependencies, 1, resolved_cmds)) > 1
    THEN [ambiguous |-> TRUE, v |-> <<>>]
    ELSE IF Len(parents_with(entry.dependencies, 1, resolved_cmds)) = 1
    THEN [ambiguous |-> FALSE,
          v |-> entry.llm_commands \o parents_with(entry.dependencies, 1, resolved_cmds)[1]]
    ELSE [ambiguous |-> FALSE, v |-> entry.llm_commands]

\* the "Commands" block were the first parent's list taken when several have one
inherit_first_commands(entry, resolved_cmds) ==
    IF Len(entry.llm_commands) > 0 THEN [ambiguous |-> FALSE, v |-> entry.llm_commands]
    ELSE IF Len(parents_with(entry.dependencies, 1, resolved_cmds)) >= 1
         THEN [ambiguous |-> FALSE, v |-> parents_with(entry.dependencies, 1, resolved_cmds)[1]]
         ELSE [ambiguous |-> FALSE, v |-> <<>>]

\* the "Commands" block: the node's own list, its one parent's, none, or ambiguous
inherit_commands(entry, resolved_cmds) ==
    LET parents_with_cmds == parents_with(entry.dependencies, 1, resolved_cmds)
    IN  IF Len(entry.llm_commands) > 0 THEN [ambiguous |-> FALSE, v |-> entry.llm_commands]
        ELSE IF Len(parents_with_cmds) > 1 THEN [ambiguous |-> TRUE, v |-> <<>>]
        ELSE IF Len(parents_with_cmds) = 1 THEN [ambiguous |-> FALSE, v |-> parents_with_cmds[1]]
        ELSE [ambiguous |-> FALSE, v |-> <<>>]

\* the "Validators" block
inherit_validators(entry, resolved_validators) ==
    LET parents_with_validators == parents_with(entry.dependencies, 1, resolved_validators)
    IN  IF Len(entry.validator_commands) > 0
        THEN [ambiguous |-> FALSE, v |-> entry.validator_commands]
        ELSE IF Len(parents_with_validators) > 1 THEN [ambiguous |-> TRUE, v |-> <<>>]
        ELSE IF Len(parents_with_validators) = 1
             THEN [ambiguous |-> FALSE, v |-> parents_with_validators[1]]
        ELSE [ambiguous |-> FALSE, v |-> <<>>]

RECURSIVE parent_retries(_, _, _)
\* "Collect all non-zero parent retries"
parent_retries(dependencies, k, resolved_retry) ==
    IF k > Len(dependencies) THEN <<>>
    ELSE LET parent_name == dependencies[k]
             rest == parent_retries(dependencies, k + 1, resolved_retry)
         IN  IF Contains(parent_name, ".") THEN rest
             ELSE IF GetOr(resolved_retry, parent_name, 0) > 0
                  THEN <<GetOr(resolved_retry, parent_name, 0)>> \o rest
                  ELSE rest

\* max(list) were it the first element
FirstOf(list) == list[1]

RECURSIVE MaxOf(_)
\* max(list) of a non-empty list
MaxOf(list) == IF Len(list) = 1 THEN list[1] ELSE Max(list[1], MaxOf(Tail(list)))

\* the "Auto-Retry (TAKE MAX)" block
inherit_retry(entry, resolved_retry) ==
    LET retries == parent_retries(entry.dependencies, 1, resolved_retry)
    IN  IF entry.auto_retry > 0 THEN entry.auto_retry
        ELSE IF Len(retries) > 0 THEN MaxOf(retries)
        ELSE 0

RECURSIVE inherit_from(_, _, _, _)
\* "for name in topo_order", at position k; r holds the three resolved maps
inherit_from(entries, topo_order, k, r) ==
    IF k > Len(topo_order) THEN [ret |-> TRUE, resolved |-> r, stderr |-> <<>>]
    ELSE LET node == topo_order[k]
             entry == EntryOf(entries, node)
             cmds == inherit_commands(entry, r.cmds)
             valids == inherit_validators(entry, r.validators)
             retry == inherit_retry(entry, r.retry)
         IN  IF cmds.ambiguous
             THEN [ret |-> FALSE, resolved |-> r,
                   stderr |-> <<[error |-> "multiple parents define commands. Ambiguous.",
                                 prompt |-> node]>>]
             ELSE IF valids.ambiguous
             THEN [ret |-> FALSE, resolved |-> [r EXCEPT !.cmds = (node :> cmds.v) @@ @],
                   stderr |-> <<[error |-> "multiple parents define validators. Ambiguous.",
                                 prompt |-> node]>>]
             ELSE inherit_from(entries, topo_order, k + 1,
                    [cmds |-> (node :> cmds.v) @@ r.cmds,
                     validators |-> (node :> valids.v) @@ r.validators,
                     retry |-> (node :> retry) @@ r.retry])

RECURSIVE write_back(_, _, _)
\* "Write the resolved properties back into each entry", from entry number e on
write_back(entries, e, r) ==
    IF e > Len(entries) THEN Return(entries, 0)
    ELSE IF entries[e].name \notin DOMAIN r.cmds THEN [exc |-> "KeyError", v |-> entries, index |-> 0]
    ELSE write_back([entries EXCEPT ![e].llm_commands = r.cmds[entries[e].name],
                                    ![e].validator_commands = r.validators[entries[e].name],
                                    ![e].auto_retry = r.retry[entries[e].name]],
                    e + 1, r)

\* "1. Build adjacency for topological sort"
graph_of(entries) ==
    build_graph(entries, 1, 1, [deps_graph |-> [n \in NamesOf(entries) |-> <<>>],
                                indeg |-> [n \in NamesOf(entries) |-> 0]])

\* queue = [n for n in self.entries if indeg[n] == 0]
roots(entries, indeg) ==
    LET IsRoot(n) == indeg[n] = 0
    IN  SelectSeq([k \in 1..Len(entries) |-> entries[k].name], IsRoot)

\* the order "2) Topological sort" builds from the graph g
topo_order_of(entries, g) ==
    topological_sort(roots(entries, g.indeg), <<>>, g.indeg, g.deps_graph)

\* resolved_cmds, resolved_validators and resolved_retry before the loop
NoneResolved ==
    [cmds |-> [n \in {} |-> <<>>], validators |-> [n \in {} |-> <<>>],
     retry |-> [n \in {} |-> 0]]

\* "4) Write the resolved properties back", w being what write_back gave
written(w, topo_order, r) ==
    [exc |-> w.exc, ret |-> w.exc = "", entries |-> w.v, stderr |-> <<>>,
     topo_order |-> topo_order, resolved |-> r.resolved]

\* the commands resolved so far were written also when the loop of step 3 had
\* found an ambiguity
inherited_written_anyway(entries, topo_order, r) ==
    IF ~r.ret
    THEN [exc |-> "", ret |-> FALSE,
          entries |-> [e \in 1..Len(entries) |->
                          IF entries[e].name \in DOMAIN r.resolved.cmds
                          THEN [entries[e] EXCEPT
                                   !.llm_commands = r.resolved.cmds[entries[e].name]]
                          ELSE entries[e]],
          stderr |-> r.stderr, topo_order |-> topo_order, resolved |-> r.resolved]
    ELSE written(write_back(entries, 1, r.resolved), topo_order, r)

\* after the loop of "3. Inherit logic", r being what it gave
inherited(entries, topo_order, r) ==
    IF ~r.ret
    THEN [exc |-> "", ret |-> FALSE, entries |-> entries, stderr |-> r.stderr,
          topo_order |-> topo_order, resolved |-> r.resolved]
    ELSE written(write_back(entries, 1, r.resolved), topo_order, r)

\* steps 3 and 4 over topo_order
inherit_in_order(entries, topo_order) ==
    inherited(entries, topo_order, inherit_from(entries, topo_order, 1, NoneResolved))

\* steps 2 to 4 over the graph g, unless building it raised
inherit_over(entries, g) ==
    IF g.exc # ""
    THEN [exc |-> g.exc, ret |-> FALSE, entries |-> entries, stderr |-> <<>>,
          topo_order |-> <<>>, resolved |-> NoneResolved]
    ELSE inherit_in_order(entries, topo_order_of(entries, g.v))

\* inherit_properties: what it returned or raised (exc), the entries it left,
\* what it wrote to stderr, and its locals topo_order and resolved
inherit_properties(entries) == inherit_over(entries, graph_of(entries))

(***************************************************************************)
(* dependency_to_str and Prompts.get_prompt                                *)
(***************************************************************************)
dependency_to_str(dep) ==
    IF Contains(dep, ".") THEN dep ELSE dep \o <<".", "t", "x", "t">>

\* reversed(prompts) were the list as it stands
Unreversed(list) == list

RECURSIVE Reverse(_)
Reverse(list) == IF Len(list) = 0 THEN <<>> ELSE Append(Reverse(Tail(list)), list[1])

\* the test of the text branch were passed by every graph reference
always_inlined(current_name, requested) == ~Contains(current_name, ".")

\* whether current_name takes the branch that appends entry.text
is_inlined(current_name, requested) ==
    (current_name = requested \/ StartsWith(current_name, "_"))
    /\ ~Contains(current_name, ".")

RECURSIVE get_prompt_emitting_again(_, _, _, _, _)
\* "while frontier" were an explored entry's text appended once more, its
\* dependencies not enqueued again
get_prompt_emitting_again(entries, requested, files, frontier, s) ==
    IF Len(frontier) = 0
    THEN [exc |-> "", none |-> FALSE, v |-> Reverse(s.prompts), stderr |-> <<>>, log |-> s.log]
    ELSE IF ~HasEntry(entries, frontier[1])
    THEN [exc |-> "", none |-> TRUE, v |-> <<>>,
          stderr |-> <<[error |-> "no known prompt", prompt |-> frontier[1]]>>,
          log |-> s.log]
    ELSE get_prompt_emitting_again(entries, requested, files,
           Tail(frontier)
             \o (IF frontier[1] \in s.explored THEN <<>>
                 ELSE EntryOf(entries, frontier[1]).dependencies),
           [explored |-> s.explored \cup {frontier[1]},
            prompts |-> Append(s.prompts, EntryOf(entries, frontier[1]).text),
            log |-> Append(s.log, [ref |-> frontier[1], how |-> "text",
                                   enqueued |-> <<>>, file |-> None])])

RECURSIVE get_prompt_from(_, _, _, _, _)
\* "while frontier"; s holds explored, prompts and the log of what was done:
\* per dequeued reference, how it was handled, what was enqueued, the file opened
get_prompt_from(entries, requested, files, frontier, s) ==
    IF Len(frontier) = 0
    THEN [exc |-> "", none |-> FALSE, v |-> Reverse(s.prompts), stderr |-> <<>>, log |-> s.log]
    ELSE
      LET current_name == frontier[1]
          rest == Tail(frontier)
          graph == ~Contains(current_name, ".")
          entry == EntryOf(entries, current_name)
          file == dependency_to_str(current_name)
          enqueued == IF graph THEN entry.dependencies ELSE <<>>
          explored == IF graph THEN s.explored \cup {current_name} ELSE s.explored
      IN  IF ~HasEntry(entries, current_name) /\ graph
          THEN [exc |-> "", none |-> TRUE, v |-> <<>>,
                stderr |-> <<[error |-> "no known prompt", prompt |-> current_name]>>,
                log |-> s.log]
          ELSE IF graph /\ current_name \in s.explored
          THEN get_prompt_from(entries, requested, files, rest,
                 [s EXCEPT !.log = Append(@, [ref |-> current_name, how |-> "skip",
                                              enqueued |-> <<>>, file |-> None])])
          ELSE IF is_inlined(current_name, requested)
          THEN get_prompt_from(entries, requested, files, rest \o enqueued,
                 [explored |-> explored,
                  prompts |-> Append(s.prompts, entry.text),
                  log |-> Append(s.log, [ref |-> current_name, how |-> "text",
                                         enqueued |-> enqueued, file |-> None])])
          ELSE IF file \notin DOMAIN files
          THEN [exc |-> "FileNotFoundError", none |-> FALSE, v |-> <<>>, stderr |-> <<>>,
                log |-> Append(s.log, [ref |-> current_name, how |-> "open failed",
                                       enqueued |-> enqueued, file |-> file])]
          ELSE get_prompt_from(entries, requested, files, rest \o enqueued,
                 [explored |-> explored,
                  prompts |-> s.prompts \o <<PyStr(Join(<<"\n", "\t">>, files[file])),
                                             PyStr(current_name \o <<":">>)>>,
                  log |-> Append(s.log, [ref |-> current_name, how |-> "file",
                                         enqueued |-> enqueued, file |-> file])])

get_prompt(entries, requested, files) ==
    get_prompt_from(entries, requested, files, <<requested>>,
                    [explored |-> {}, prompts |-> <<>>, log |-> <<>>])

(***************************************************************************)
(* Entry.to_make and Prompts.to_make                                       *)
(***************************************************************************)
RECURSIVE format(_, _)
\* cmd.format(name=nm): every "{name}" becomes nm
format(cmd, nm) ==
    IF Len(cmd) = 0 THEN <<>>
    ELSE IF Len(cmd) >= 6 /\ SubSeq(cmd, 1, 6) = <<"{", "n", "a", "m", "e", "}">>
         THEN nm \o format(SubSeq(cmd, 7, Len(cmd)), nm)
         ELSE <<cmd[1]>> \o format(Tail(cmd), nm)

\* the recipe lines before the retry logic: commands (or the default), then validators
command_lines(entry) ==
    LET cmds == IF Len(entry.llm_commands) > 0
                THEN [k \in 1..Len(entry.llm_commands) |->
                         format(entry.llm_commands[k], entry.name)]
                ELSE << (<<"ollama run deepseek-r1:14b < ">> \o entry.name)
                           \o (<<".prompt | tee ">> \o entry.name) \o <<".txt">>,
                        (<<"sed -i '1,/<\\/think>/d' ">> \o entry.name) \o <<".txt">> >>
    IN  cmds \o [k \in 1..Len(entry.validator_commands) |->
                    format(entry.validator_commands[k], entry.name)]

\* Entry.to_make: the two rules written for an entry, none for a macro
Entry_to_make(entry, prompts_file) ==
    LET IsTarget(dep) == ~StartsWith(dep, "_")
        deps == SelectSeq(entry.dependencies, IsTarget)
    IN  IF StartsWith(entry.name, "_") THEN <<>>
        ELSE << [target |-> entry.name \o <<".prompt">>,
                 prerequisites |-> <<prompts_file>>
                                   \o [k \in 1..Len(deps) |-> dependency_to_str(deps[k])],
                 retry_loop |-> FALSE, max_retry |-> 0,
                 recipe |-> << <<"llmake.py ">> \o prompts_file \o <<" ">> \o entry.name >>],
                [target |-> entry.name \o <<".txt">>,
                 prerequisites |-> <<entry.name \o <<".prompt">>>>,
                 retry_loop |-> entry.auto_retry > 0,
                 max_retry |-> entry.auto_retry,
                 recipe |-> IF entry.auto_retry > 0
                            THEN <<Join(<<" && ">>, command_lines(entry))>>
                            ELSE command_lines(entry)] >>

RECURSIVE rules_from(_, _, _)
rules_from(entries, e, prompts_file) ==
    IF e > Len(entries) THEN <<>>
    ELSE Entry_to_make(entries[e], prompts_file) \o rules_from(entries, e + 1, prompts_file)

\* Prompts.to_make: the "all" and "clean" targets, then every entry's rules
Prompts_to_make(entries, prompts_file) ==
    LET names == [k \in 1..Len(entries) |-> entries[k].name]
        IsTarget(n) == ~StartsWith(n, "_")
        targets == SelectSeq(names, IsTarget)
    IN  [all |-> [k \in 1..Len(targets) |-> targets[k] \o <<".txt">>],
         clean |-> [k \in 1..Len(targets) |-> <<targets[k] \o <<".txt">>,
                                                targets[k] \o <<".prompt">>>>],
         rules |-> rules_from(entries, 1, prompts_file)]

(***************************************************************************)
(* main: parse, validate, inherit, then emit or assemble                   *)
(***************************************************************************)
\* an uncaught exception: Python prints the traceback and exits with status 1
Traceback(exc) == [error |-> "Traceback", exception |-> exc]

NoAssembly == [exc |-> "", none |-> FALSE, v |-> <<>>, stderr |-> <<>>, log |-> <<>>]

NoOutput == [kind |-> "none", v |-> <<>>]

\* args.file, the path of the prompts file
prompts_file == <<"p", ".", "l", "l", "m", "a", "k", "e">>

\* references main can be asked to assemble that name no entry
OtherRefs == {<<"z">>, <<"f", ".", "x">>}

\* "\n\n".join(prompt)
join_prompt(blocks) ==
    IF \E k \in 1..Len(blocks) : blocks[k].list THEN Raise(TypeError, 0)
    ELSE Return(Join(<<"\n", "\n">>, [k \in 1..Len(blocks) |-> blocks[k].items[1]]), 0)

\* what main does with r, the outcome of parser_obj.parse_entries()
main_parsed(r) ==
    /\ index' = r.index
    /\ calls' = Append(calls, "parse_entries")
    /\ IF r.exc = "ParseError"
       THEN /\ stderr' = Append(stderr, ParseError_str(r.error))
            /\ status' = 1 /\ pc' = "exit" /\ prompts' = prompts
       ELSE IF r.exc # ""
       THEN /\ stderr' = Append(stderr, Traceback(r.exc))
            /\ status' = 1 /\ pc' = "exit" /\ prompts' = prompts
       ELSE IF r.v.none
       THEN /\ stderr' = Append(stderr, [error |-> "Multiple definitions of prompt",
                                         prompt |-> r.v.duplicate])
            /\ status' = 1 /\ pc' = "exit" /\ prompts' = prompts
       ELSE /\ prompts' = r.v.entries
            /\ pc' = "validate"
            /\ UNCHANGED <<stderr, status>>

\* prompts = parser_obj.parse_entries(), and the two exits after it
Parse ==
    /\ pc = "parse"
    /\ main_parsed(parse_entries)
    /\ UNCHANGED <<tokens, disk, args, output, assembled, run>>

\* what main does with r, the outcome of prompts.validate_dependencies()
main_validated(r) ==
    /\ calls' = Append(calls, "validate_dependencies")
    /\ stderr' = stderr \o r.stderr
    /\ IF r.ret THEN pc' = "inherit" /\ status' = status
                ELSE pc' = "exit" /\ status' = 1

\* if not prompts.validate_dependencies(): exit(1)
Validate ==
    /\ pc = "validate"
    /\ main_validated(validate_dependencies(prompts))
    /\ UNCHANGED <<tokens, index, disk, prompts, args, output, assembled, run>>

\* main were to go on after inherit_properties returned False
main_resolved_unchecked(r) ==
    /\ calls' = Append(calls, "inherit_properties")
    /\ prompts' = r.entries
    /\ IF r.exc # ""
       THEN /\ stderr' = Append(stderr, Traceback(r.exc))
            /\ pc' = "exit" /\ status' = 1
       ELSE stderr' = stderr \o r.stderr /\ pc' = "emit" /\ status' = status

\* what main does with r, the outcome of prompts.inherit_properties()
main_resolved(r) ==
    /\ calls' = Append(calls, "inherit_properties")
    /\ prompts' = r.entries
    /\ IF r.exc # ""
       THEN /\ stderr' = Append(stderr, Traceback(r.exc))
            /\ pc' = "exit" /\ status' = 1
       ELSE IF ~r.ret
       THEN stderr' = stderr \o r.stderr /\ pc' = "exit" /\ status' = 1
       ELSE stderr' = stderr /\ pc' = "emit" /\ status' = status

\* if not prompts.inherit_properties(): exit(1)
Inherit ==
    /\ pc = "inherit"
    /\ main_resolved(inherit_properties(prompts))
    /\ UNCHANGED <<tokens, index, disk, args, output, assembled, run>>

\* if args.makefile: prompts.to_make(output, args.file); exit(0)
ToMake ==
    /\ pc = "emit"
    /\ args' = [makefile |-> TRUE, prompt |-> None]
    /\ calls' = Append(calls, "to_make")
    /\ output' = [kind |-> "makefile", v |-> Prompts_to_make(prompts, prompts_file)]
    /\ pc' = "exit" /\ status' = 0
    /\ UNCHANGED <<tokens, index, disk, prompts, stderr, assembled, run>>

\* if args.prompt == "": print every entry's name; exit(0)
ListEntries ==
    /\ pc = "emit"
    /\ args' = [makefile |-> FALSE, prompt |-> None]
    /\ output' = [kind |-> "list", v |-> [k \in 1..Len(prompts) |-> prompts[k].name]]
    /\ pc' = "exit" /\ status' = 0
    /\ UNCHANGED <<tokens, index, disk, prompts, stderr, assembled, calls, run>>

\* output.write("\n\n".join(prompt)); exit(0)
main_written(text) ==
    IF text.exc # ""
    THEN /\ stderr' = Append(stderr, Traceback(text.exc))
         /\ status' = 1 /\ output' = output
    ELSE /\ output' = [kind |-> "prompt", v |-> text.v]
         /\ status' = 0 /\ stderr' = stderr

\* what main does with r, the outcome of prompts.get_prompt(args.prompt)
main_got_prompt(r) ==
    /\ calls' = Append(calls, "get_prompt")
    /\ assembled' = r
    /\ pc' = "exit"
    /\ IF r.exc # ""
       THEN /\ stderr' = Append(stderr, Traceback(r.exc))
            /\ status' = 1 /\ output' = output
       ELSE IF r.none
       THEN stderr' = stderr \o r.stderr /\ status' = 1 /\ output' = output
       ELSE main_written(join_prompt(r.v))

\* prompt = prompts.get_prompt(args.prompt), written joined to the output
GetPrompt ==
    /\ pc = "emit"
    /\ \E requested \in NamesOf(prompts) \cup OtherRefs :
         /\ args' = [makefile |-> FALSE, prompt |-> requested]
         /\ main_got_prompt(get_prompt(prompts, requested, disk))
    /\ UNCHANGED <<tokens, index, disk, prompts, run>>

\* Prompts.get_prompt called on the set parse_entries returned, as a caller
\* of the class other than main does
GetPromptOfParsed ==
    /\ pc = "validate"
    /\ \E requested \in NamesOf(prompts) :
         /\ args' = [makefile |-> FALSE, prompt |-> requested]
         /\ assembled' = get_prompt(prompts, requested, disk)
    /\ calls' = Append(calls, "get_prompt")
    /\ pc' = "exit"
    /\ UNCHANGED <<tokens, index, disk, prompts, stderr, output, status, run>>

NextOfParsed == Parse \/ GetPromptOfParsed

(***************************************************************************)
(* make running a recipe Entry.to_make wrote                               *)
(***************************************************************************)
\* make starts the recipe of one rule of the makefile main wrote; the shell
\* of a retry loop begins with "retry=0; max_retry={0};"
MakeTarget ==
    /\ pc = "exit" /\ output.kind = "makefile" /\ run.state = "none"
    /\ \E k \in 1..Len(output.v.rules) :
         run' = [state |-> IF output.v.rules[k].retry_loop THEN "until" ELSE "lines",
                 rule |-> k, line |-> 1, retry |-> 0,
                 max_retry |-> output.v.rules[k].max_retry,
                 runs |-> [i \in 1..Len(output.v.rules[k].recipe) |-> 0],
                 status |-> -1]
    /\ UNCHANGED <<tokens, index, disk, pc, prompts, args, stderr, output, assembled,
                   status, calls>>

\* "until ( {0} ); do": the combined command is run; the loop ends when it
\* succeeds, its body is run when it fails
Until ==
    /\ run.state = "until"
    /\ \E succeeded \in BOOLEAN :
         run' = [run EXCEPT !.runs[1] = @ + 1,
                            !.state = IF succeeded THEN "done" ELSE "do",
                            !.status = IF succeeded THEN 0 ELSE @]
    /\ UNCHANGED <<tokens, index, disk, pc, prompts, args, stderr, output, assembled,
                   status, calls>>

\* the test of the loop body were [ $$retry -gt $$max_retry ]
retry_exceeded(retry, max_retry) == retry > max_retry

\* [ $$retry -ge $$max_retry ]
retry_exhausted(retry, max_retry) == retry >= max_retry

\* the body of the loop: "retry=$$((retry+1))", then "exit 1" when
\* [ $$retry -ge $$max_retry ], else "done" goes back to the test of until
Do ==
    /\ run.state = "do"
    /\ run' = [run EXCEPT !.retry = @ + 1,
                          !.state = IF retry_exhausted(run.retry + 1, run.max_retry)
                                    THEN "failed" ELSE "until",
                          !.status = IF retry_exhausted(run.retry + 1, run.max_retry)
                                     THEN 1 ELSE @]
    /\ UNCHANGED <<tokens, index, disk, pc, prompts, args, stderr, output, assembled,
                   status, calls>>

\* a recipe written line by line: make runs the next line and stops at the
\* first line that fails
RunLine ==
    /\ run.state = "lines"
    /\ \E succeeded \in BOOLEAN :
         run' = [run EXCEPT !.runs[run.line] = @ + 1,
                            !.line = IF succeeded THEN @ + 1 ELSE @,
                            !.state = IF ~succeeded THEN "failed"
                                      ELSE IF run.line = Len(run.runs) THEN "done"
                                      ELSE @,
                            !.status = IF ~succeeded THEN 1
                                       ELSE IF run.line = Len(run.runs) THEN 0
                                       ELSE @]
    /\ UNCHANGED <<tokens, index, disk, pc, prompts, args, stderr, output, assembled,
                   status, calls>>

\* main writing the makefile, then make running one recipe of it
NextMake == Parse \/ Validate \/ Inherit \/ ToMake \/ MakeTarget \/ Until \/ Do \/ RunLine

Next == Parse \/ Validate \/ Inherit \/ ToMake \/ ListEntries \/ GetPrompt

(***************************************************************************)
(* Documents: the token list tokenize gives for the lines of a text        *)
(***************************************************************************)
Token(type, str) == [type |-> type, string |-> str]

NEWLINE == Token("NEWLINE", <<"\n">>)
NL == Token("NL", <<"\n">>)
COLON == Token("OP", <<":">>)
COMMA == Token("OP", <<",">>)
PERIOD == Token("OP", <<".">>)
INDENT == Token("INDENT", <<"    ">>)
DEDENT == Token("DEDENT", <<>>)
ENCODING == Token("ENCODING", <<"utf-8">>)
ENDMARKER == Token("ENDMARKER", <<>>)
Name(s) == Token("NAME", s)
Number(n) == Token("NUMBER", StrOfInt(n))
Quoted(s) == Token("STRING", (<<"\"">> \o s) \o <<"\"">>)

\* a line of the text: its indentation level and the tokens of its words
Line(level, words) == [level |-> level, words |-> words]

RECURSIVE tokenize_from(_, _, _)
\* the tokens of the lines from number k on, the block open being at level:
\* a blank line is an NL, a deeper line opens with INDENT, a shallower one
\* closes with DEDENTs, every other line ends with NEWLINE
tokenize_from(lines, k, level) ==
    IF k > Len(lines) THEN [j \in 1..level |-> DEDENT] \o <<ENDMARKER>>
    ELSE IF lines[k].words = <<>> THEN <<NL>> \o tokenize_from(lines, k + 1, level)
    ELSE (IF lines[k].level > level THEN <<INDENT>>
          ELSE [j \in 1..(level - lines[k].level) |-> DEDENT])
         \o lines[k].words \o <<NEWLINE>>
         \o tokenize_from(lines, k + 1, lines[k].level)

\* Parser.__init__: self.tokens, the ENCODING token first
tokenize(lines) == <<ENCODING>> \o tokenize_from(lines, 1, 0)

RECURSIVE DepTokens(_, _)
\* the tokens of a dependency: its NAMEs, with a '.' token between two of them
DepTokens(dep, word) ==
    IF Len(dep) = 0 THEN <<Name(word)>>
    ELSE IF dep[1] = "." THEN <<Name(word), PERIOD>> \o DepTokens(Tail(dep), <<>>)
    ELSE DepTokens(Tail(dep), Append(word, dep[1]))

RECURSIVE DepsTokens(_)
DepsTokens(deps) ==
    IF Len(deps) = 0 THEN <<>>
    ELSE IF Len(deps) = 1 THEN DepTokens(deps[1], <<>>)
    ELSE DepTokens(deps[1], <<>>) \o <<COMMA>> \o DepsTokens(Tail(deps))

\* the line key: "value"
FieldLine(key, value) == Line(1, <<Name(key), COLON, Quoted(value)>>)

\* the line validator: "cmd" retry N, or validator: "cmd" when N is 0
ValidatorLine(v) ==
    IF v.retry > 0
    THEN Line(1, <<Name(kw_validator), COLON, Quoted(v.cmd), Name(kw_retry), Number(v.retry)>>)
    ELSE FieldLine(kw_validator, v.cmd)

\* an entry in the ordered form: e is [name, deps, text, cmds, vals, auto]
EntryLines(e) ==
    <<Line(0, <<Name(e.name), COLON>> \o DepsTokens(e.deps)), Line(1, <<Quoted(e.text)>>)>>
      \o [k \in 1..Len(e.cmds) |-> FieldLine(kw_command, e.cmds[k])]
      \o [k \in 1..Len(e.vals) |-> ValidatorLine(e.vals[k])]
      \o (IF e.auto > 0 THEN <<FieldLine(kw_auto_retry, StrOfInt(e.auto))>> ELSE <<>>)

RECURSIVE EntriesLines(_)
\* the entries one after the other, a blank line between two of them
EntriesLines(es) ==
    IF Len(es) = 0 THEN <<>>
    ELSE IF Len(es) = 1 THEN EntryLines(es[1])
    ELSE EntryLines(es[1]) \o <<Line(0, <<>>)>> \o EntriesLines(Tail(es))

\* a file on the disk: two lines that show its name
FileLines(file) == << (<<"<">> \o file) \o <<"\n">>, <<">", "\n">> >>

\* the disk holding the files of the references in refs
Files(refs) == [file \in {dependency_to_str(ref) : ref \in refs} |-> FileLines(file)]

\* make has not been run
NoRun ==
    [state |-> "none", rule |-> 0, line |-> 0, retry |-> 0, max_retry |-> 0,
     runs |-> <<>>, status |-> -1]

\* main() before parse_entries, given the tokens and the disk
Start(doc, files) ==
    /\ tokens = doc
    /\ index = 1
    /\ disk = files
    /\ pc = "parse"
    /\ prompts = <<>>
    /\ args = [makefile |-> FALSE, prompt |-> None]
    /\ stderr = <<>>
    /\ output = NoOutput
    /\ assembled = NoAssembly
    /\ status = -1
    /\ calls = <<>>
    /\ run = NoRun

(***************************************************************************)
(* The documents main is started on                                        *)
(***************************************************************************)
\* the most dependencies an entry names
MaxDeps == 2
\* the largest retry count an entry declares
MaxRetry == 3
\* the most lines in the body of an entry drawn line by line
MaxLines == 2

A == <<"a">>
B == <<"b">>
C == <<"c">>
D == <<"d">>
\* a name no entry has
Z == <<"z">>
\* a file reference
F == <<"f", ".", "x">>
\* a macro entry's name
M == <<"_", "m">>

SeqsUpTo(S, n) == UNION {[1..k -> S] : k \in 0..n}

\* the sequences that name every element of a subset of S once
Arrangements(S) ==
    {s \in SeqsUpTo(S, Cardinality(S)) : \A i, j \in 1..Len(s) : i # j => s[i] # s[j]}

\* which lists an entry declares
Lists == {"none", "cmds", "vals"}

\* an entry with the text "T<name>", and "c<name>" or "v<name>" as its one command
Shape(nm, deps, lists, auto) ==
    [name |-> nm, deps |-> deps, text |-> <<"T">> \o nm,
     cmds |-> IF lists = "cmds" THEN << <<"c">> \o nm >> ELSE <<>>,
     vals |-> IF lists = "vals" THEN << [cmd |-> <<"v">> \o nm, retry |-> 0] >> ELSE <<>>,
     auto |-> auto]

\* an entry whose validator line carries the retry count
RetryShape(nm, deps, retry) ==
    [name |-> nm, deps |-> deps, text |-> <<"T">> \o nm, cmds |-> <<>>,
     vals |-> << [cmd |-> <<"v">> \o nm, retry |-> retry] >>, auto |-> 0]

Disk == Files({A, B, C, D})

\* two entries whose dependencies name themselves, each other, no entry, a file
InitValidate ==
    \E da, db \in SeqsUpTo({A, B, Z, F}, MaxDeps) :
        Start(tokenize(EntriesLines(<<Shape(A, da, "none", 0), Shape(B, db, "none", 0)>>)),
              Disk)

\* three entries, c below a and b, each declaring commands, validators or neither
InitGraph ==
    \E da \in SeqsUpTo({B}, MaxDeps), db \in SeqsUpTo({A}, MaxDeps),
       dc \in SeqsUpTo({A, B, F}, MaxDeps) :
      \E la, lb, lc \in Lists :
        Start(tokenize(EntriesLines(<<Shape(A, da, la, 0), Shape(B, db, lb, 0),
                                      Shape(C, dc, lc, 0)>>)), Disk)

InitResolve == InitValidate \/ InitGraph

\* a, b below a, and c and d, which may name each other: a cycle listed after
\* entries that are on none
InitBesideCycle ==
    \E db \in SeqsUpTo({A}, MaxDeps), dc \in SeqsUpTo({B, D}, 1), dd \in SeqsUpTo({C}, 1) :
      \E la, lb \in Lists :
        Start(tokenize(EntriesLines(<<Shape(A, <<>>, la, 0), Shape(B, db, lb, 0),
                                      Shape(C, dc, "none", 0), Shape(D, dd, "none", 0)>>)),
              Disk)

\* d names some of a, b, c in some order; each declares a retry count or none
InitRetry ==
    \E ra, rb, rc \in 0..MaxRetry, rd \in {0, 1}, chain \in BOOLEAN,
       dd \in Arrangements({A, B, C}) :
        Start(tokenize(EntriesLines(<<Shape(D, dd, "none", rd),
                                      Shape(A, <<>>, "none", ra),
                                      Shape(B, IF chain THEN <<A>> ELSE <<>>, "none", rb),
                                      RetryShape(C, <<>>, rc)>>)), Disk)

\* a macro, two artifacts and c above them, on a disk holding some of the files
InitAssemble ==
    \E dm \in SeqsUpTo({A}, 1), da \in SeqsUpTo({M, B}, 1),
       dc \in SeqsUpTo({M, A, B, F}, MaxDeps), on_disk \in SUBSET {A, B, F} :
        Start(tokenize(EntriesLines(<<Shape(M, dm, "none", 0), Shape(A, da, "none", 0),
                                      Shape(B, <<>>, "none", 0), Shape(C, dc, "none", 0)>>)),
              Files(on_disk))

\* a macro and three artifacts whose dependencies may form cycles, every file
\* on the disk
InitAssembleParsed ==
    \E dm \in SeqsUpTo({A}, 1), da \in SeqsUpTo({M, B, C}, MaxDeps),
       db \in SeqsUpTo({A}, 1), dc \in SeqsUpTo({M, A, F}, MaxDeps) :
        Start(tokenize(EntriesLines(<<Shape(M, dm, "none", 0), Shape(A, da, "none", 0),
                                      Shape(B, db, "none", 0), Shape(C, dc, "none", 0)>>)),
              Files({M, A, B, C, F}))

\* the first line of an entry, drawn word by word
Headers ==
    { <<Name(A), COLON>>,
      <<Name(A), COLON, Name(B)>>,
      <<Name(A), COLON, Name(B), COMMA>>,
      <<Name(A), COLON>> \o DepsTokens(<<B, F>>),
      <<Name(A), Name(B)>>,
      <<Name(A), COLON, Name(<<"f">>), PERIOD>> }

\* a line of the body, drawn word by word
BodyLines ==
    { <<Quoted(<<"T">>)>>,
      <<Name(kw_text), COLON, Quoted(<<"T">>)>>,
      <<Name(kw_command), COLON, Quoted(<<"c">>)>>,
      <<Name(kw_command), Quoted(<<"c">>)>>,
      <<Name(kw_command), COLON, Quoted(<<"c">>), Name(kw_retry), Number(2)>>,
      <<Name(kw_validator), COLON, Quoted(<<"v">>)>>,
      <<Name(kw_validator), COLON, Quoted(<<"v">>), Name(kw_retry), Number(2)>>,
      <<Name(kw_validator), COLON, Quoted(<<"v">>), Name(kw_retry), Name(<<"x">>)>>,
      <<Name(kw_validator), COLON, Quoted(<<"v">>), Name(<<"foo">>)>>,
      <<Name(kw_validator), COLON, Quoted(<<"v">>), Name(<<"foo">>), Number(3)>>,
      <<Name(kw_auto_retry), COLON, Quoted(<<"1">>)>>,
      <<Name(kw_auto_retry), COLON, Quoted(<<"x">>)>> }

\* one entry: a first line and up to MaxLines lines of body
InitParse ==
    \E header \in Headers, body \in SeqsUpTo(BodyLines, MaxLines) :
        /\ Len(body) >= 1
        /\ Start(tokenize(<<Line(0, header)>> \o [k \in 1..Len(body) |-> Line(1, body[k])]),
                 Disk)

\* two entries: a, then an entry named a or b with up to MaxDeps dependencies
InitPair ==
    \E first \in {"none", "cmds"}, second \in {A, B}, deps \in SeqsUpTo({A, B, Z, F}, MaxDeps) :
        Start(tokenize(EntriesLines(<<Shape(A, <<>>, first, 0), Shape(second, deps, "none", 0)>>)),
              Disk)

Init == InitParse \/ InitPair

Spec == Init /\ [][Next]_vars

SpecResolve == InitResolve /\ [][Next]_vars

SpecRetry == InitRetry /\ [][Next]_vars

SpecAssemble == InitAssemble /\ [][Next]_vars

SpecAssembleParsed == InitAssembleParsed /\ [][NextOfParsed]_vars

SpecBesideCycle == InitBesideCycle /\ [][Next]_vars

SpecMake == InitRetry /\ [][NextMake]_vars

(***************************************************************************)
(* What validation and resolution are said to do                           *)
(***************************************************************************)
\* the entries as parse_entries returned them, before inherit_properties
\* rewrote their lists
Declared == parse_entries_from(1, <<>>).v.entries

ValidationRan == Len(calls) >= 2

\* validate_dependencies returned True: main went on to inherit_properties
ValidationSucceeded == Len(calls) >= 3 \/ (Len(calls) = 2 /\ pc = "inherit")

ResolutionRan == Len(calls) >= 3

\* inherit_properties did not return True: main exited with status 1 after it
ResolutionFailed == Len(calls) = 3 /\ status = 1

ResolutionSucceeded == ResolutionRan /\ ~ResolutionFailed

Kinds == {"commands", "validators"}

\* the list of that kind an entry holds
ListOf(entry, kind) ==
    IF kind = "commands" THEN entry.llm_commands ELSE entry.validator_commands

\* the places in an entry's dependency list that name a graph parent
GraphPlaces(entry) ==
    {j \in 1..Len(entry.dependencies) : ~Contains(entry.dependencies[j], ".")}

GraphParents(entry) == {entry.dependencies[j] : j \in GraphPlaces(entry)}

RECURSIVE Ancestors(_, _, _)
\* the entries reached from n along at most fuel graph dependencies
Ancestors(entries, n, fuel) ==
    IF fuel = 0 THEN {}
    ELSE LET parents == GraphParents(EntryOf(entries, n)) \cap NamesOf(entries)
         IN  parents \cup UNION {Ancestors(entries, p, fuel - 1) : p \in parents}

Acyclic(entries) ==
    \A n \in NamesOf(entries) : n \notin Ancestors(entries, n, Len(entries))

RECURSIVE ResolvedList(_, _, _, _)
\* the list of a kind a node resolves to: its own when it has one, the list of
\* the one place among its graph dependencies that resolves to a non-empty
\* list, empty otherwise
ResolvedList(entries, n, kind, fuel) ==
    LET entry == EntryOf(entries, n)
        qualifying == {j \in GraphPlaces(entry) :
                         fuel > 0 /\ ResolvedList(entries, entry.dependencies[j],
                                                  kind, fuel - 1) # <<>>}
    IN  IF ListOf(entry, kind) # <<>> THEN ListOf(entry, kind)
        ELSE IF Cardinality(qualifying) = 1
        THEN ResolvedList(entries, entry.dependencies[CHOOSE j \in qualifying : TRUE],
                          kind, fuel - 1)
        ELSE <<>>

\* the places of a node's dependency list that name a parent with a non-empty
\* resolved list of the kind
QualifyingPlaces(entries, n, kind) ==
    {j \in GraphPlaces(EntryOf(entries, n)) :
        ResolvedList(entries, EntryOf(entries, n).dependencies[j], kind, Len(entries)) # <<>>}

QualifyingParents(entries, n, kind) ==
    {EntryOf(entries, n).dependencies[j] : j \in QualifyingPlaces(entries, n, kind)}

\* the error inherit_properties writes for a node and a kind
AmbiguityError(n, kind) ==
    [error |-> IF kind = "commands" THEN "multiple parents define commands. Ambiguous."
               ELSE "multiple parents define validators. Ambiguous.",
     prompt |-> n]

AmbiguityReported(n, kind) ==
    ResolutionFailed /\ stderr = <<AmbiguityError(n, kind)>>

\* C1: validate_dependencies returns True exactly when no entry names itself
\* and every dependency without a period names an entry; a dependency with a
\* period plays no part in the outcome.
C1_ValidateIffWellFormed ==
    ValidationRan =>
      (ValidationSucceeded <=>
         \A e \in 1..Len(prompts) : \A k \in 1..Len(prompts[e].dependencies) :
            /\ prompts[e].dependencies[k] # prompts[e].name
            /\ ~Contains(prompts[e].dependencies[k], ".")
                 => prompts[e].dependencies[k] \in NamesOf(prompts))

\* validation succeeded on an entry with a file reference that names no entry
C1_FileReferencePassed ==
    /\ ValidationSucceeded
    /\ \E e \in 1..Len(prompts) : \E k \in 1..Len(prompts[e].dependencies) :
          /\ Contains(prompts[e].dependencies[k], ".")
          /\ ~HasEntry(prompts, prompts[e].dependencies[k])

\* C2: in an acyclic validated set, for commands and for validators: a node
\* with no list of its own and more than one parent whose resolved list is
\* non-empty makes inherit_properties fail with the ambiguity error, and the
\* node an ambiguity error names never has a list of its own.
C2_AmbiguousParentsFail ==
    ResolutionRan =>
      LET declared == Declared
      IN  Acyclic(declared) =>
            \A kind \in Kinds : \A n \in NamesOf(declared) :
              /\ (/\ ListOf(EntryOf(declared, n), kind) = <<>>
                  /\ Cardinality(QualifyingParents(declared, n, kind)) > 1)
                   => (/\ ResolutionFailed
                       /\ \E m \in NamesOf(declared), other \in Kinds :
                             stderr = <<AmbiguityError(m, other)>>)
              /\ AmbiguityReported(n, kind) => ListOf(EntryOf(declared, n), kind) = <<>>

\* the diamond: c has no validators, its parents a and b both declare some
C2_ValidatorDiamondFailed ==
    /\ AmbiguityReported(C, "validators")
    /\ LET declared == Declared
       IN  /\ Acyclic(declared)
           /\ ListOf(EntryOf(declared, C), "validators") = <<>>
           /\ ListOf(EntryOf(declared, A), "validators") # <<>>
           /\ ListOf(EntryOf(declared, B), "validators") # <<>>
           /\ GraphParents(EntryOf(declared, C)) = {A, B}

\* C3: for commands and for validators, a child with no list of its own and
\* exactly one graph parent that declares a non-empty list makes resolution
\* succeed and resolves to that parent's list, whatever the rest of the graph,
\* a parent named twice in the child's dependency list included.
C3_OneDeclaringParentResolves ==
    ResolutionRan =>
      LET declared == Declared
      IN  Acyclic(declared) =>
            \A kind \in Kinds : \A n \in NamesOf(declared) :
              LET declaring == {p \in GraphParents(EntryOf(declared, n)) :
                                   ListOf(EntryOf(declared, p), kind) # <<>>}
              IN  (ListOf(EntryOf(declared, n), kind) = <<>> /\ Cardinality(declaring) = 1)
                    => /\ ResolutionSucceeded
                       /\ \A p \in declaring :
                             ListOf(EntryOf(prompts, n), kind)
                               = ListOf(EntryOf(declared, p), kind)

\* What inherit_properties does count is the places of the dependency list:
\* a child with no list of its own and exactly one place naming a parent with
\* a non-empty resolved list has, when resolution succeeds, that parent's
\* resolved list; with more than one such place, the same parent named twice
\* included, resolution fails.
OneQualifyingPlaceInherits ==
    ResolutionRan =>
      LET declared == Declared
      IN  Acyclic(declared) =>
            \A kind \in Kinds : \A n \in NamesOf(declared) :
              LET places == QualifyingPlaces(declared, n, kind)
              IN  ListOf(EntryOf(declared, n), kind) = <<>> =>
                    /\ Cardinality(places) > 1 => ResolutionFailed
                    /\ (ResolutionSucceeded /\ Cardinality(places) = 1)
                         => \A p \in QualifyingParents(declared, n, kind) :
                               /\ ListOf(EntryOf(prompts, n), kind) # <<>>
                               /\ ListOf(EntryOf(prompts, n), kind)
                                    = ListOf(EntryOf(prompts, p), kind)
                               /\ ListOf(EntryOf(prompts, p), kind)
                                    = ResolvedList(declared, p, kind, Len(declared))
                    /\ (ResolutionSucceeded /\ places = {})
                         => ListOf(EntryOf(prompts, n), kind) = <<>>

\* c took the commands its parent b had taken from a
InheritedThroughParent ==
    /\ ResolutionSucceeded
    /\ LET declared == Declared
       IN  /\ NamesOf(declared) = {A, B, C}
           /\ Acyclic(declared)
           /\ EntryOf(declared, C).llm_commands = <<>>
           /\ EntryOf(declared, B).llm_commands = <<>>
           /\ GraphParents(EntryOf(declared, C)) = {B}
           /\ GraphParents(EntryOf(declared, B)) = {A}
           /\ EntryOf(prompts, C).llm_commands = EntryOf(declared, A).llm_commands
           /\ EntryOf(prompts, C).llm_commands # <<>>

\* the largest element of a non-empty set of numbers
Largest(S) == CHOOSE x \in S : \A y \in S : y <= x

RECURSIVE ResolvedRetry(_, _, _)
\* the retry count a node resolves to: its own when positive, otherwise the
\* largest among its graph parents, 0 when it has none
ResolvedRetry(entries, n, fuel) ==
    LET entry == EntryOf(entries, n)
    IN  IF entry.auto_retry > 0 THEN entry.auto_retry
        ELSE IF fuel = 0 THEN 0
        ELSE Largest({0} \cup {ResolvedRetry(entries, p, fuel - 1) : p \in GraphParents(entry)})

\* C4: resolving retry counts never makes inherit_properties fail; a node with
\* a positive retry count keeps it, any other node gets the largest resolved
\* count among its graph parents, whatever the order of its dependency list
\* and of the entries.
C4_RetryIsTheLargest ==
    ResolutionRan =>
      /\ ResolutionSucceeded
      /\ LET declared == Declared
         IN  \A n \in NamesOf(declared) :
               /\ EntryOf(prompts, n).auto_retry
                    = ResolvedRetry(declared, n, Len(declared))
               /\ EntryOf(declared, n).auto_retry > 0
                    => EntryOf(prompts, n).auto_retry = EntryOf(declared, n).auto_retry

\* d declares no retry and names a, b, c, whose counts are 2, 3, 0: d gets 3
C4_TwoThreeZeroGiveThree ==
    /\ ResolutionSucceeded
    /\ LET declared == Declared
       IN  /\ EntryOf(declared, D).auto_retry = 0
           /\ EntryOf(declared, D).dependencies = <<A, B, C>>
    /\ EntryOf(prompts, A).auto_retry = 2
    /\ EntryOf(prompts, B).auto_retry = 3
    /\ EntryOf(prompts, C).auto_retry = 0
    /\ EntryOf(prompts, D).auto_retry = 3

Stages == <<"parse_entries", "validate_dependencies", "inherit_properties">>

\* a stage main has called raised ParseError, reported a duplicate name or
\* returned False, as computed again from the tokens
StageFailed ==
    /\ Len(calls) >= 1
    /\ LET parsed == parse_entries_from(1, <<>>)
       IN  \/ parsed.exc = "ParseError"
           \/ parsed.exc = "" /\ parsed.v.none
           \/ /\ parsed.exc = "" /\ ~parsed.v.none
              /\ Len(calls) >= 2
              /\ ~validate_dependencies(parsed.v.entries).ret
           \/ /\ parsed.exc = "" /\ ~parsed.v.none
              /\ validate_dependencies(parsed.v.entries).ret
              /\ Len(calls) >= 3
              /\ inherit_properties(parsed.v.entries).exc = ""
              /\ ~inherit_properties(parsed.v.entries).ret

\* C6: main calls parse_entries, validate_dependencies, inherit_properties in
\* that order and only then to_make or get_prompt; when parsing raised
\* ParseError, a duplicate name was reported, validation or resolution returned
\* False, neither to_make nor get_prompt is called, nothing is written to the
\* output and main has exited with status 1.
C6_FailedStageStopsMain ==
    /\ Len(calls) <= 4
    /\ \A k \in 1..Len(calls) :
          IF k <= 3 THEN calls[k] = Stages[k] ELSE calls[k] \in {"to_make", "get_prompt"}
    /\ StageFailed =>
          /\ pc = "exit" /\ status = 1
          /\ \A k \in 1..Len(calls) : calls[k] \notin {"to_make", "get_prompt"}
          /\ output = NoOutput
          /\ assembled = NoAssembly

\* inherit_properties found an ambiguity and returned False: main exited
\* with status 1 after the three stages
C6_AmbiguityStoppedMain ==
    /\ calls = Stages
    /\ pc = "exit" /\ status = 1
    /\ StageFailed
    /\ \E n \in NamesOf(prompts) : stderr = <<AmbiguityError(n, "commands")>>

(***************************************************************************)
(* What get_prompt is said to do                                           *)
(***************************************************************************)
AssemblyRan == Len(calls) = 4 /\ calls[4] = "get_prompt"

\* get_prompt returned its sequence
AssemblyReturned == AssemblyRan /\ assembled.exc = "" /\ ~assembled.none

\* the fragments get_prompt returned
Fragments == {assembled.v[j] : j \in 1..Len(assembled.v)}

\* the references get_prompt took from the frontier and did not skip as explored
Reached == {k \in 1..Len(assembled.log) : assembled.log[k].how # "skip"}

\* C7: a graph reference reached by get_prompt other than the requested name
\* has its declared text appended, and no file opened, exactly when its name
\* starts with '_'; otherwise the file <name>.txt is opened and the declared
\* text is not in the output.  A reference with a period opens the file of
\* that very name and nothing of the entry set is used for it.
C7_MacroTextOrArtifactFile ==
    AssemblyRan =>
      \A k \in Reached :
        LET ref == assembled.log[k].ref
            how == assembled.log[k].how
            file == assembled.log[k].file
        IN  IF Contains(ref, ".")
            THEN /\ how \in {"file", "open failed"}
                 /\ file = ref
                 /\ assembled.log[k].enqueued = <<>>
                 /\ how = "open failed" <=> ref \notin DOMAIN disk
            ELSE ref # args.prompt =>
                 /\ how = "text" <=> StartsWith(ref, "_")
                 /\ how = "text" =>
                      /\ file = None
                      /\ AssemblyReturned => EntryOf(prompts, ref).text \in Fragments
                 /\ how # "text" =>
                      /\ how \in {"file", "open failed"}
                      /\ file = ref \o <<".", "t", "x", "t">>
                      /\ how = "open failed" <=> file \notin DOMAIN disk
                      /\ AssemblyReturned => EntryOf(prompts, ref).text \notin Fragments

\* c was assembled from a macro's text, an artifact's file and a named file
C7_MacroArtifactAndFileAssembled ==
    /\ AssemblyReturned
    /\ \E k \in Reached : /\ assembled.log[k].ref = M
                          /\ assembled.log[k].how = "text"
                          /\ M # args.prompt
    /\ \E k \in Reached : /\ assembled.log[k].ref = A
                          /\ assembled.log[k].how = "file"
                          /\ A # args.prompt
    /\ \E k \in Reached : /\ assembled.log[k].ref = F
                          /\ assembled.log[k].how = "file"

\* what a handled reference appends to prompts
EmittedBy(l) ==
    IF l.how = "text" THEN <<EntryOf(prompts, l.ref).text>>
    ELSE IF l.how = "file"
    THEN <<PyStr(Join(<<"\n", "\t">>, disk[l.file])), PyStr(l.ref \o <<":">>)>>
    ELSE <<>>

RECURSIVE Emission(_)
\* prompts, in the order of the appends, after the first k handled references
Emission(k) ==
    IF k = 0 THEN <<>> ELSE Emission(k - 1) \o EmittedBy(assembled.log[k])

\* C8: the sequence get_prompt returns is the appended fragments in reverse:
\* the requested entry's own text is its last element, and the label
\* "<name>:" of a file fragment stands immediately before the file's content.
C8_OutputIsEmissionReversed ==
    AssemblyReturned =>
      LET n == Len(assembled.v)
      IN  /\ n = Len(Emission(Len(assembled.log)))
          /\ \A j \in 1..n : assembled.v[j] = Emission(Len(assembled.log))[n + 1 - j]
          /\ HasEntry(prompts, args.prompt) =>
               /\ n >= 1
               /\ assembled.v[n] = EntryOf(prompts, args.prompt).text
          /\ \A k \in 1..Len(assembled.log) :
               assembled.log[k].how = "file" =>
                 LET at == n - Len(Emission(k - 1))
                 IN  /\ at >= 2
                     /\ assembled.v[at - 1] = PyStr(assembled.log[k].ref \o <<":">>)
                     /\ assembled.v[at] = PyStr(Join(<<"\n", "\t">>, disk[assembled.log[k].file]))

\* c's text came last, after a macro's text and a labelled artifact file
C8_TextLastAfterMacroAndFile ==
    /\ AssemblyReturned
    /\ args.prompt = C
    /\ Len(assembled.v) >= 4
    /\ assembled.v[Len(assembled.v)] = PyStr(<<"T">> \o C)
    /\ \E j \in 1..Len(assembled.v) : assembled.v[j] = PyStr(<<"T">> \o M)
    /\ \E j \in 1..(Len(assembled.v) - 1) :
          /\ assembled.v[j] = PyStr(A \o <<":">>)
          /\ assembled.v[j + 1] = PyStr(Join(<<"\n", "\t">>, disk[A \o <<".", "t", "x", "t">>]))

(***************************************************************************)
(* What the parser is said to accept and to reject                         *)
(***************************************************************************)
\* the lines key: "value" of a body in the keyed form
KeyedLines ==
    { <<Name(kw_text), COLON, Quoted(<<"T">>)>>,
      <<Name(kw_command), COLON, Quoted(<<"c">>)>>,
      <<Name(kw_validator), COLON, Quoted(<<"v">>)>>,
      <<Name(kw_auto_retry), COLON, Quoted(<<"1">>)>> }

\* the document of one entry a with these dependencies and body lines
KeyedDocument(deps, body) ==
    tokenize(<<Line(0, <<Name(A), COLON>> \o DepsTokens(deps))>>
             \o [k \in 1..Len(body) |-> Line(1, body[k])])

\* the values of the lines of a body that have the key, in order
ValuesOf(body, key) ==
    LET HasKey(line) == line[1].string = key
    IN  [k \in 1..Len(SelectSeq(body, HasKey)) |->
            Strip1(SelectSeq(body, HasKey)[k][3].string)]

\* the Entry the ordered form gives for the same text, lines and dependencies
KeyedEntry(deps, body, position) ==
    [name |-> A,
     dependencies |-> deps,
     text |-> PyStr(ValuesOf(body, kw_text)[1]),
     source_position |-> position,
     llm_commands |-> ValuesOf(body, kw_command),
     validator_commands |-> ValuesOf(body, kw_validator),
     auto_retry |-> IF ValuesOf(body, kw_auto_retry) = <<>> THEN 0
                    ELSE IntOfStr(ValuesOf(body, kw_auto_retry)[1])]

\* C9: an entry whose body is in the keyed form, the text given by a line
\* text: "..." anywhere among the lines key: "value", is parsed without error
\* into the Entry the ordered form gives, and its commands, validators and
\* retry count are in the makefile to_make writes.
C9_KeyedFormParsed ==
    Len(calls) >= 1 =>
      \A deps \in {<<>>, <<B>>, <<B, F>>}, body \in SeqsUpTo(KeyedLines, MaxLines) :
        (Len(ValuesOf(body, kw_text)) = 1 /\ tokens = KeyedDocument(deps, body)) =>
           /\ Len(prompts) = 1
           /\ prompts = <<KeyedEntry(deps, body, prompts[1].source_position)>>
           /\ \A k \in 1..Len(stderr) : "detailed" \notin DOMAIN stderr[k]
           /\ output.kind = "makefile" =>
                output.v.rules = Entry_to_make(KeyedEntry(deps, body, prompts[1].source_position),
                                               prompts_file)

IsA(k, type) == tokens[k].type = type

IsOp(k, op) == tokens[k].type = "OP" /\ tokens[k].string = <<op>>

RECURSIVE G_document(_), G_dep(_), G_fields(_)
\* The grammar of the specification over the tokens from place k on: the place
\* of the first token that no document of the grammar has there, 0 when there
\* is none.  A blank line is skipped, a field takes one line.
G_document(k) ==
    IF IsA(k, "NL") \/ IsA(k, "NEWLINE") THEN G_document(k + 1)
    ELSE IF IsA(k, "ENDMARKER") THEN 0
    ELSE IF ~IsA(k, "NAME") THEN k
    ELSE IF ~IsOp(k + 1, ":") THEN k + 1
    ELSE IF IsA(k + 2, "NEWLINE")
    THEN (IF IsA(k + 3, "INDENT") THEN G_fields(k + 4) ELSE k + 3)
    ELSE G_dep(k + 2)

\* dep := NAME (PERIOD NAME)*, then a comma and a dep, or the end of the line
G_dep(k) ==
    IF ~IsA(k, "NAME") THEN k
    ELSE IF IsOp(k + 1, ".") \/ IsOp(k + 1, ",") THEN G_dep(k + 2)
    ELSE IF ~IsA(k + 1, "NEWLINE") THEN k + 1
    ELSE IF IsA(k + 2, "INDENT") THEN G_fields(k + 3) ELSE k + 2

\* the lines of a body: the text string (ordered form) or key: "value" with
\* an optional retry N, until the DEDENT
G_fields(k) ==
    IF IsA(k, "NL") \/ IsA(k, "NEWLINE") THEN G_fields(k + 1)
    ELSE IF IsA(k, "DEDENT") THEN G_document(k + 1)
    ELSE IF IsA(k, "STRING") /\ IsA(k - 1, "INDENT")
    THEN (IF IsA(k + 1, "NEWLINE") THEN G_fields(k + 2) ELSE k + 1)
    ELSE IF ~IsA(k, "NAME") THEN k
    ELSE IF ~IsOp(k + 1, ":") THEN k + 1
    ELSE IF ~IsA(k + 2, "STRING") THEN k + 2
    ELSE IF IsA(k + 3, "NEWLINE") THEN G_fields(k + 4)
    ELSE IF ~(IsA(k + 3, "NAME") /\ tokens[k + 3].string = kw_retry) THEN k + 3
    ELSE IF ~IsA(k + 4, "NUMBER") THEN k + 4
    ELSE IF ~IsA(k + 5, "NEWLINE") THEN k + 5
    ELSE G_fields(k + 6)

\* the place of the first token of the document that violates the grammar
FirstViolation == G_document(2)

\* C10: when a token of the document violates the grammar, parse_entries stops
\* with the cursor on the first such token and the ParseError main prints
\* names what was expected and the text and kind of that token: ':' was
\* expected where a STRING follows the key of a field line, a NAME where a
\* NEWLINE follows the comma of a dependency list.
C10_StopsAtFirstViolation ==
    (Len(calls) >= 1 /\ FirstViolation > 0) =>
      LET p == FirstViolation
      IN  /\ calls = <<"parse_entries">> /\ pc = "exit" /\ status = 1
          /\ index = p - 1
          /\ Len(stderr) = 1
          /\ "detailed" \in DOMAIN stderr[1]
          /\ stderr[1].detailed
          /\ stderr[1].message.names_token
          /\ stderr[1].got = tokens[p].string
          /\ stderr[1].kind = tokens[p].type
          /\ (IsA(p, "STRING") /\ IsA(p - 1, "NAME"))
               => (stderr[1].message.expected = "':'" /\ stderr[1].kind = "STRING")
          /\ (IsA(p, "NEWLINE") /\ IsOp(p - 1, ","))
               => (/\ stderr[1].message.expected = "a NAME (e.g., variable or keyword)"
                   /\ stderr[1].kind = "NEWLINE")

(***************************************************************************)
(* What parse_entries is said to do with a name given twice                *)
(***************************************************************************)
\* the places of the tokens that open an entry: a NAME at the start of the
\* document or after the DEDENT that closed the entry before
HeaderPlaces == {k \in 2..Len(tokens) : IsA(k, "NAME") /\ (k = 2 \/ IsA(k - 1, "DEDENT"))}

\* the names the document gives to more than one entry
NamedTwice ==
    {tokens[k].string : k \in {h \in HeaderPlaces :
                                 \E g \in HeaderPlaces : g # h /\ tokens[g] = tokens[h]}}

TrailingName(p) ==
    /\ p >= 5
    /\ IsA(p, "NAME") /\ IsA(p - 1, "STRING") /\ IsOp(p - 2, ":") /\ IsA(p - 3, "NAME")

\* main printed a ParseError and exited
ParseErrorPrinted ==
    /\ calls = <<"parse_entries">>
    /\ pc = "exit" /\ status = 1
    /\ Len(stderr) = 1
    /\ "detailed" \in DOMAIN stderr[1]

\* C12: the NAME after the value STRING of a field line must be retry, with a
\* NUMBER after it: where the document first departs from the grammar at such
\* a NAME that is not retry, or at the token after retry that is no NUMBER,
\* parse_entries raises a ParseError and the cursor has not passed that token.
C12_TrailingNameMustBeRetry ==
    Len(calls) >= 1 =>
      \A p \in 2..Len(tokens) :
        (TrailingName(p) /\ FirstViolation \in {p, p + 1}) =>
           /\ ParseErrorPrinted
           /\ index <= FirstViolation - 1

(***************************************************************************)
(* What inherit_properties is said to do with a cycle, and its order       *)
(***************************************************************************)
\* the entries on a dependency cycle
OnCycle(entries) == {n \in NamesOf(entries) : n \in Ancestors(entries, n, Len(entries))}

\* the entries on a cycle and the entries below one
CycleBound(entries) ==
    OnCycle(entries)
      \cup {n \in NamesOf(entries) : Ancestors(entries, n, Len(entries)) \cap OnCycle(entries) # {}}

\* no entry names itself and every dependency without a period names an entry
WellFormed(entries) ==
    \A e \in 1..Len(entries) : \A k \in 1..Len(entries[e].dependencies) :
       /\ entries[e].dependencies[k] # entries[e].name
       /\ ~Contains(entries[e].dependencies[k], ".")
            => entries[e].dependencies[k] \in NamesOf(entries)

\* C13: on a set with a dependency cycle of two or more entries, no entry
\* naming itself and every name known, validate_dependencies returns True and
\* inherit_properties returns True without any error: the entries on the cycle
\* and below it are left out of the resolution order, the others are in it.
C13_CycleLeftOutSilently ==
    LET declared == Declared
    IN  (ValidationRan /\ WellFormed(declared) /\ OnCycle(declared) # {}) =>
          /\ ValidationSucceeded
          /\ ResolutionRan =>
               /\ ResolutionSucceeded
               /\ stderr = <<>>
               /\ inherit_properties(declared).exc = ""
               /\ inherit_properties(declared).ret
               /\ \A n \in NamesOf(declared) :
                     (\E k \in 1..Len(inherit_properties(declared).topo_order) :
                         inherit_properties(declared).topo_order[k] = n)
                       <=> n \notin CycleBound(declared)

\* the places an entry has in an order
PlacesIn(order, n) == {k \in 1..Len(order) : order[k] = n}

\* C14: on an acyclic set that passed validation, a parent named twice
\* included, the order inherit_properties builds holds every entry exactly
\* once, each after all of its graph parents, and the write-back finds a
\* resolved value for every entry: no KeyError is raised.
C14_OrderHoldsEveryEntryAfterItsParents ==
    ResolutionRan =>
      LET declared == Declared
          again == inherit_properties(declared)
          order == again.topo_order
      IN  Acyclic(declared) =>
            /\ Len(order) = Len(declared)
            /\ \A n \in NamesOf(declared) :
                  /\ Cardinality(PlacesIn(order, n)) = 1
                  /\ \A p \in GraphParents(EntryOf(declared, n)) :
                       \A i \in PlacesIn(order, p), j \in PlacesIn(order, n) : i < j
            /\ again.exc = ""
            /\ \A k \in 1..Len(stderr) : stderr[k] # Traceback("KeyError")
            /\ ResolutionSucceeded => DOMAIN again.resolved.cmds = NamesOf(declared)

\* c names its parent b twice, b is below a: the order is a, b, c
C14_ParentNamedTwiceOrdered ==
    /\ ResolutionRan
    /\ LET declared == Declared
       IN  /\ NamesOf(declared) = {A, B, C}
           /\ EntryOf(declared, C).dependencies = <<B, B>>
           /\ EntryOf(declared, B).dependencies = <<A>>
           /\ EntryOf(declared, A).dependencies = <<>>
           /\ inherit_properties(declared).topo_order = <<A, B, C>>

(***************************************************************************)
(* What get_prompt is said to traverse                                     *)
(***************************************************************************)
\* a reference whose dependencies are to be traversed: the requested entry
\* or a macro entry
Expanded(ref) ==
    /\ HasEntry(prompts, ref)
    /\ ref = args.prompt \/ StartsWith(ref, "_")

RECURSIVE Traversed(_, _)
\* the references reached from those in seen through the dependencies of the
\* requested entry and of macro entries only, in at most fuel steps
Traversed(seen, fuel) ==
    IF fuel = 0 THEN seen
    ELSE Traversed(seen \cup UNION {{EntryOf(prompts, n).dependencies[j] :
                                        j \in 1..Len(EntryOf(prompts, n).dependencies)} :
                                    n \in {r \in seen : Expanded(r)}},
                   fuel - 1)

\* C15: get_prompt enqueues the dependencies of the requested entry and of
\* macro entries only: a graph entry that is neither has its file and label
\* emitted and nothing enqueued, and every reference get_prompt handles is
\* reached without passing through such an entry.
C15_ArtifactDependenciesNotTraversed ==
    AssemblyRan =>
      \A k \in Reached :
        /\ (HasEntry(prompts, assembled.log[k].ref) /\ ~Expanded(assembled.log[k].ref))
             => assembled.log[k].enqueued = <<>>
        /\ assembled.log[k].ref \in Traversed({args.prompt}, Len(prompts) + 1)

\* get_prompt was called on the parsed set and returned its sequence
ReturnedOfParsed ==
    /\ calls = <<"parse_entries", "get_prompt">>
    /\ assembled.exc = "" /\ ~assembled.none

\* the dependencies named in the set, counted with their places
DependencyPlaces(entries) ==
    {<<e, k>> \in (1..Len(entries)) \X (1..(MaxDeps + 1)) : k <= Len(entries[e].dependencies)}

\* C16: get_prompt handles each graph entry at most once however many paths
\* reach it: its text or its labelled file is in the output at most once, and
\* the loop takes at most one reference more than there are dependencies in
\* the set, so it ends, also when the dependencies form a cycle, through the
\* requested entry or not.
C16_EachEntryOnceAndTerminates ==
    calls = <<"parse_entries", "get_prompt">> =>
      /\ \A n \in NamesOf(prompts) :
            /\ Cardinality({k \in Reached : assembled.log[k].ref = n}) <= 1
            /\ Cardinality({j \in 1..Len(assembled.v) :
                              assembled.v[j] \in {EntryOf(prompts, n).text,
                                                  PyStr(n \o <<":">>)}}) <= 1
      /\ Len(assembled.log) <= 1 + Cardinality(DependencyPlaces(prompts))
      /\ assembled.exc = "" /\ ~assembled.none

\* a was requested, a names the macro and the macro names a: the second
\* visit of a was skipped and the sequence returned
C16_CycleThroughRequestedReturned ==
    /\ ReturnedOfParsed
    /\ args.prompt = A
    /\ M \in GraphParents(EntryOf(prompts, A))
    /\ A \in GraphParents(EntryOf(prompts, M))
    /\ \E k \in 1..Len(assembled.log) : /\ assembled.log[k].ref = A
                                        /\ assembled.log[k].how = "skip"
    /\ Cardinality({j \in 1..Len(assembled.v) : assembled.v[j] = PyStr(<<"T">> \o A)}) = 1

(***************************************************************************)
(* What is said to leave the entries alone                                 *)
(***************************************************************************)
\* the part of C17 about the calls that return: a call of inherit_properties
\* that returns False for an ambiguity of commands or validators leaves the
\* commands, validators and retry count of every entry as they were before the
\* call, and the calls of validate_dependencies and of get_prompt change no entry.
C17_FailedResolutionWritesNothing ==
    [][ /\ (/\ calls' = Append(calls, "inherit_properties")
            /\ \E n \in NamesOf(prompts), kind \in Kinds :
                  stderr' = Append(stderr, AmbiguityError(n, kind)))
             => prompts' = prompts
        /\ (\/ calls' = Append(calls, "validate_dependencies")
            \/ calls' = Append(calls, "get_prompt"))
             => prompts' = prompts ]_vars

\* c was ambiguous between a and b; b, which was resolved to a's commands
\* before c, still has none
C17_ResolvedButNotWritten ==
    /\ AmbiguityReported(C, "commands")
    /\ EntryOf(prompts, A).llm_commands # <<>>
    /\ EntryOf(prompts, B).dependencies = <<A>>
    /\ EntryOf(prompts, B).llm_commands = <<>>
    /\ prompts = Declared

\* every entry has its commands, validators and retry count resolved
EveryNodeResolved(entries, resolved) ==
    \A n \in NamesOf(entries) :
       n \in DOMAIN resolved.cmds \cap DOMAIN resolved.validators \cap DOMAIN resolved.retry

\* C17: a call of inherit_properties that fails for an ambiguity of commands
\* or validators leaves the commands, validators and retry count of every
\* entry as they were before the call; a call of inherit_properties changes an
\* entry only when every entry has been resolved; and the calls of
\* validate_dependencies and of get_prompt change no entry.
C17_WrittenOnlyAfterEveryNodeResolved ==
    [][ /\ (/\ calls' = Append(calls, "inherit_properties")
            /\ \E n \in NamesOf(prompts), kind \in Kinds :
                  stderr' = Append(stderr, AmbiguityError(n, kind)))
             => prompts' = prompts
        /\ (/\ calls' = Append(calls, "inherit_properties")
            /\ prompts' # prompts)
             => EveryNodeResolved(prompts, inherit_properties(prompts).resolved)
        /\ (\/ calls' = Append(calls, "validate_dependencies")
            \/ calls' = Append(calls, "get_prompt"))
             => prompts' = prompts ]_vars

\* b has the commands of a although inherit_properties raised KeyError at c
C17_WrittenBeforeKeyError ==
    /\ ResolutionRan
    /\ stderr = <<Traceback("KeyError")>>
    /\ EntryOf(Declared, B).llm_commands = <<>>
    /\ EntryOf(prompts, B).llm_commands = EntryOf(prompts, A).llm_commands
    /\ EntryOf(prompts, B).llm_commands # <<>>
    /\ OnCycle(prompts) = {C, D}

(***************************************************************************)
(* What the emitted recipe is said to do when make runs it                 *)
(***************************************************************************)
\* the rule whose recipe make is running
RunRule == output.v.rules[run.rule]

\* the entries whose ".txt" rule make is running
RunEntries == {e \in 1..Len(prompts) : RunRule.target = prompts[e].name \o <<".txt">>}

\* C18: for an entry with resolved retry count N > 0 the recipe is a loop that
\* runs the commands and validators joined with && at most N times: another attempt is made only
\* after fewer than N failed ones, the loop ends with status 0 at the first
\* attempt that succeeds, and it exits with status 1 after the N-th failed
\* attempt in a row; for an entry with retry count 0 the recipe is the command
\* lines, no loop, and no line is run more than once, every line once when
\* the recipe succeeds.
C18_LoopRunsAtMostNTimes ==
    (run.state # "none" /\ RunEntries # {}) =>
       \A e \in RunEntries :
          LET N == prompts[e].auto_retry
          IN  IF N > 0
              THEN /\ RunRule.retry_loop /\ run.max_retry = N
                   /\ RunRule.recipe = <<Join(<<" && ">>, command_lines(prompts[e]))>>
                   /\ Len(run.runs) = 1
                   /\ run.runs[1] <= N
                   /\ run.state = "until" => run.runs[1] = run.retry /\ run.retry < N
                   /\ run.state = "do" => run.runs[1] = run.retry + 1
                   /\ run.state = "done" => run.runs[1] = run.retry + 1 /\ run.status = 0
                   /\ run.state = "failed" =>
                        run.runs[1] = N /\ run.retry = N /\ run.status = 1
              ELSE /\ ~RunRule.retry_loop
                   /\ run.state \in {"lines", "done", "failed"}
                   /\ RunRule.recipe = command_lines(prompts[e])
                   /\ \A i \in 1..Len(run.runs) : run.runs[i] <= 1
                   /\ run.state = "done" =>
                        (\A i \in 1..Len(run.runs) : run.runs[i] = 1) /\ run.status = 0

\* d declares no retry count and inherits 3: its loop failed three times and
\* exited with status 1
C18_ThirdFailureExits ==
    /\ run.state = "failed" /\ run.status = 1
    /\ RunRule.target = D \o <<".txt">>
    /\ EntryOf(Declared, D).auto_retry = 0
    /\ EntryOf(prompts, D).auto_retry = 3
    /\ run.runs = <<3>> /\ run.retry = 3

====
